---- MODULE Spec2Model ----
(***************************************************************************)
(* flylinks: the durability subsystem of backend/src/bin/server.rs.        *)
(*                                                                         *)
(* main opens Persistence (fetch the snapshot from S3, write it to         *)
(* db_path, open the SQLite connection), spawns the backup loop and        *)
(* serves requests.  Handlers run concurrently on the runtime's worker     *)
(* threads; every Persistence operation takes the Mutex around the         *)
(* connection.  create_link calls dirty.notify_one(); the backup loop      *)
(* blocks on dirty.notified(), stages a copy of the database with          *)
(* SQLite's online backup and uploads it.                                  *)
(*                                                                         *)
(* The database file is a sequence of pages: SchemaPages pages that hold   *)
(* the header and the links table's schema, then one leaf page per         *)
(* (namespace, short_form) slot, in key order.                             *)
(***************************************************************************)
EXTENDS Integers, Sequences, FiniteSets, TLC

\* ---------------------------------------------------------------- bounds
NumClients == 2      \* concurrent handler threads
MaxCalls == 2        \* create_link requests, and restarts, over the run
MaxBusy == 6         \* SQLITE_BUSY answers one staging may get
SchemaPages == 2     \* pages before the first leaf page

\* run_to_completion(5, ...): pages copied per backup step
PagesPerStep == 5

NsSeq == <<"a", "b">>
SfSeq == <<"x", "y">>
LfSeq == <<"u", "v">>

Clients == 1..NumClients
Namespaces == {NsSeq[i] : i \in 1..Len(NsSeq)}
ShortForms == {SfSeq[i] : i \in 1..Len(SfSeq)}
LongForms == {LfSeq[i] : i \in 1..Len(LfSeq)}

\* the long form of the run's k-th create_link request
RequestLongForm(k) == LfSeq[(k % Len(LfSeq)) + 1]

IndexOf(seq, v) == CHOOSE i \in 1..Len(seq) : seq[i] = v

NumPages == SchemaPages + Len(NsSeq) * Len(SfSeq)
LeafPages == (SchemaPages + 1)..NumPages

\* the leaf page that holds the row of (namespace, short_form)
PageOf(ns, sf) == SchemaPages + (IndexOf(NsSeq, ns) - 1) * Len(SfSeq) + IndexOf(SfSeq, sf)

\* the key whose row the leaf page p holds
NsOf(p) == NsSeq[((p - SchemaPages - 1) \div Len(SfSeq)) + 1]
SfOf(p) == SfSeq[((p - SchemaPages - 1) % Len(SfSeq)) + 1]

Min(a, b) == IF a < b THEN a ELSE b

\* ----------------------------------------------------------------- pages
SchemaPage == [kind |-> "schema"]
FreePage == [kind |-> "free"]
BlankPage == [kind |-> "blank"]

\* CREATE TABLE links (namespace, short_form, long_form, created_at,
\*                     PRIMARY KEY (namespace, short_form))
Row(ns, sf, lf, ts) ==
    [kind |-> "row", namespace |-> ns, short_form |-> sf, long_form |-> lf, created_at |-> ts]

\* a database holding the schema and no link (s3util's Init)
EmptyDb == [p \in 1..NumPages |-> IF p <= SchemaPages THEN SchemaPage ELSE FreePage]

\* a file left at db_path by an earlier run
StaleDb == [EmptyDb EXCEPT ![PageOf("a", "x")] = Row("a", "x", "v", 0)]

\* the databases an earlier run can have left at s3_path: the schema, and
\* under every key no link or a link to one of the long forms
StoredDbs ==
    {[p \in 1..NumPages |->
        IF p <= SchemaPages THEN SchemaPage
        ELSE IF f[p] = "" THEN FreePage
        ELSE Row(NsOf(p), SfOf(p), f[p], 0)] : f \in [LeafPages -> LongForms \cup {""}]}

NoFile == <<>>
NoContent == <<>>

\* struct Link { short_form, long_form, created_at }
Link(sf, lf, ts) == [short_form |-> sf, long_form |-> lf, created_at |-> ts]

NoReq == [op |-> "none"]

\* ------------------------------------------------------- SQL statements
\* the connection can prepare a statement on links only when the file at
\* db_path is a database that holds the table
HasTable(db) == Len(db) = NumPages /\ \A p \in 1..SchemaPages : db[p] = SchemaPage

RowPages(db) == {p \in DOMAIN db : db[p].kind = "row"}

LinkOf(row) == Link(row.short_form, row.long_form, row.created_at)

RECURSIVE Collect(_, _, _)
\* query_map(...).collect(): the rows on the pages of match, in page order
Collect(db, p, match) ==
    IF p > Len(db) THEN <<>>
    ELSE (IF p \in match THEN <<LinkOf(db[p])>> ELSE <<>>) \o Collect(db, p + 1, match)

\* SELECT short_form, long_form, created_at FROM links WHERE namespace = ?
list_links(db, namespace) ==
    Collect(db, 1, {p \in RowPages(db) : db[p].namespace = namespace})

NoneLink == [kind |-> "None"]
SomeLink(l) == [kind |-> "Some", link |-> l]

\* SELECT long_form, created_at FROM links WHERE namespace = ? AND short_form = ?
\* query_row(..).optional(): the first row if any; short_form is the argument
get_link(db, namespace, short_form) ==
    LET match == {p \in RowPages(db) :
                    db[p].namespace = namespace /\ db[p].short_form = short_form}
    IN  IF match = {} THEN NoneLink
        ELSE LET p == CHOOSE q \in match : \A r \in match : q <= r
             IN  SomeLink(Link(short_form, db[p].long_form, db[p].created_at))

\* a plausible bug: WHERE long_form = ?, the namespace is not compared
reverse_lookup_any_namespace(db, namespace, long_form) ==
    Collect(db, 1, {p \in RowPages(db) : db[p].long_form = long_form})

\* SELECT short_form, long_form, created_at FROM links
\*   WHERE namespace = ? AND long_form = ?
reverse_lookup(db, namespace, long_form) ==
    Collect(db, 1, {p \in RowPages(db) :
                      db[p].namespace = namespace /\ db[p].long_form = long_form})

\* handler reverse_lookup: state.reverse_lookup(namespace, long_form)? answers
\* Json(ReverseLookupResponse { links }), and an AppError is a 500
ReverseLookupResponse(db, namespace, long_form) ==
    IF HasTable(db)
    THEN [status |-> 200, links |-> reverse_lookup(db, namespace, long_form)]
    ELSE [status |-> 500, links |-> <<>>]

\* a plausible bug: INSERT OR IGNORE, the first write to a key stays
UpsertIgnore(db, namespace, short_form, long_form, created_at) ==
    LET conflict == {p \in RowPages(db) :
                       db[p].namespace = namespace /\ db[p].short_form = short_form}
    IN  IF conflict = {}
        THEN [db EXCEPT ![PageOf(namespace, short_form)] =
                            Row(namespace, short_form, long_form, created_at)]
        ELSE db

\* a plausible bug: DO UPDATE SET long_form only, created_at is kept
UpsertKeepsCreatedAt(db, namespace, short_form, long_form, created_at) ==
    LET conflict == {p \in RowPages(db) :
                       db[p].namespace = namespace /\ db[p].short_form = short_form}
    IN  IF conflict = {}
        THEN [db EXCEPT ![PageOf(namespace, short_form)] =
                            Row(namespace, short_form, long_form, created_at)]
        ELSE [p \in DOMAIN db |->
                IF p \in conflict THEN [db[p] EXCEPT !.long_form = long_form] ELSE db[p]]

\* a plausible bug: ON CONFLICT (short_form), the key without its namespace
UpsertAnyNamespace(db, namespace, short_form, long_form, created_at) ==
    LET conflict == {p \in RowPages(db) : db[p].short_form = short_form}
    IN  IF conflict = {}
        THEN [db EXCEPT ![PageOf(namespace, short_form)] =
                            Row(namespace, short_form, long_form, created_at)]
        ELSE [p \in DOMAIN db |->
                IF p \in conflict
                THEN [db[p] EXCEPT !.long_form = long_form, !.created_at = created_at]
                ELSE db[p]]

\* a plausible bug: a plain INSERT into a table without the primary key, so
\* every call adds a row, on the first free leaf page
UpsertAppends(db, namespace, short_form, long_form, created_at) ==
    LET free == {p \in DOMAIN db : db[p].kind = "free"}
    IN  IF free = {} THEN db
        ELSE [db EXCEPT ![CHOOSE p \in free : \A q \in free : p <= q] =
                            Row(namespace, short_form, long_form, created_at)]

\* INSERT INTO links (namespace, short_form, long_form, created_at)
\*   VALUES (?, ?, ?, ?)
\*   ON CONFLICT (namespace, short_form)
\*   DO UPDATE SET long_form = excluded.long_form, created_at = excluded.created_at
Upsert(db, namespace, short_form, long_form, created_at) ==
    LET conflict == {p \in RowPages(db) :
                       db[p].namespace = namespace /\ db[p].short_form = short_form}
    IN  IF conflict = {}
        THEN [db EXCEPT ![PageOf(namespace, short_form)] =
                            Row(namespace, short_form, long_form, created_at)]
        ELSE [p \in DOMAIN db |->
                IF p \in conflict
                THEN [db[p] EXCEPT !.long_form = long_form, !.created_at = created_at]
                ELSE db[p]]

\* ----------------------------------------------------------------- state
VARIABLES
    mainPc,       \* where main is: Persistence::open's steps, then serving
    remote,       \* the object at s3_path: [found, bytes]
    payload,      \* open's downloaded bytes
    dbFile,       \* the file at db_path
    stagingFile,  \* the file at backup_staging_path
    connOpen,     \* Persistence.conn exists
    connLocked,   \* Persistence.conn's Mutex is held
    permits,      \* Persistence.dirty: the stored permits of the Notify
    bpc,          \* where the backup loop is
    count,        \* the backup loop's count
    copied,       \* pages the running Backup has copied
    busy,         \* SQLITE_BUSY answers the running Backup has got
    content,      \* the backup loop's content
    pc,           \* where each handler thread is
    req,          \* each handler's request
    clock,        \* the time: the created_at of the next create_link request
    \* history, read by the properties only
    fetched,      \* how open's get ended: none, ok, err
    marks,        \* notify_one calls since the loop last returned from notified()
    lastOutcome,  \* how the last backup attempt ended
    nnotify,      \* notify_one calls each handler's current create_link made
    latest,       \* per leaf page, the last committed create_link's link
    nmarks,       \* notify_one calls made since the process started
    hist          \* the file the process found at db_path; from the opening of the
                  \* connection on, the contents the database has had since

vars == <<mainPc, remote, payload, dbFile, stagingFile, connOpen, connLocked, permits,
          bpc, count, copied, busy, content, pc, req, clock,
          fetched, marks, lastOutcome, nnotify, latest, nmarks, hist>>

mainVars == <<mainPc, payload, connOpen, fetched>>
loopVars == <<bpc, count, copied, busy, content, lastOutcome>>
clientVars == <<pc, req, clock, nnotify>>
dirtyVars == <<permits, marks, nmarks>>

Init ==
    /\ mainPc = "start"
    /\ remote \in {[found |-> FALSE, bytes |-> NoContent], [found |-> TRUE, bytes |-> EmptyDb]}
    /\ payload = NoContent
    /\ dbFile \in {NoFile, StaleDb}
    /\ stagingFile \in {NoFile, StaleDb}
    /\ connOpen = FALSE
    /\ connLocked = FALSE
    /\ permits = 0
    /\ bpc = "unspawned"
    /\ count = 0
    /\ copied = 0
    /\ busy = 0
    /\ content = NoContent
    /\ pc = [c \in Clients |-> "idle"]
    /\ req = [c \in Clients |-> NoReq]
    /\ clock = 1
    /\ fetched = "none"
    /\ marks = 0
    /\ lastOutcome = "none"
    /\ nnotify = [c \in Clients |-> 0]
    /\ latest = [p \in LeafPages |-> NoneLink]
    /\ nmarks = 0
    /\ hist = <<dbFile>>

\* ------------------------------------------------- main, Persistence::open
\* a plausible bug: a database found at db_path is kept and opened as it is,
\* the fetch being for a first start only
OpenKeepsLocal ==
    /\ mainPc = "start"
    /\ mainPc' = IF dbFile = NoFile THEN "init_s3" ELSE "connect"
    /\ stagingFile' = NoFile
    /\ UNCHANGED <<remote, payload, dbFile, connOpen, connLocked, fetched, latest, hist>>
    /\ UNCHANGED <<loopVars, clientVars, dirtyVars>>

\* remove_file(db_path); remove_file(backup_staging_path)
OpenRemoveFiles ==
    /\ mainPc = "start"
    /\ mainPc' = "init_s3"
    /\ dbFile' = NoFile
    /\ stagingFile' = NoFile
    /\ UNCHANGED <<remote, payload, connOpen, connLocked, fetched, latest, hist>>
    /\ UNCHANGED <<loopVars, clientVars, dirtyVars>>

\* AmazonS3Builder::from_env()...build()
OpenInitS3 ==
    /\ mainPc = "init_s3"
    /\ mainPc' = "fetch"
    /\ UNCHANGED <<remote, payload, dbFile, stagingFile, connOpen, connLocked, fetched, latest, hist>>
    /\ UNCHANGED <<loopVars, clientVars, dirtyVars>>

\* a plausible bug: a failed get is swallowed and open starts an empty store
OpenFetchFailSwallowed ==
    /\ mainPc = "fetch"
    /\ mainPc' = "write"
    /\ fetched' = "err"
    /\ payload' = EmptyDb
    /\ UNCHANGED <<remote, dbFile, stagingFile, connOpen, connLocked, latest, hist>>
    /\ UNCHANGED <<loopVars, clientVars, dirtyVars>>

\* store.get(s3_path).await.context("initial get db from s3")? fails: the
\* object is not found, or any other error; open returns it and main exits
OpenFetchFail ==
    /\ mainPc = "fetch"
    /\ mainPc' = "exited"
    /\ fetched' = "err"
    /\ UNCHANGED <<remote, payload, dbFile, stagingFile, connOpen, connLocked, latest, hist>>
    /\ UNCHANGED <<loopVars, clientVars, dirtyVars>>

\* store.get(..) and get_response.bytes() succeed
OpenFetch ==
    /\ mainPc = "fetch"
    /\ remote.found
    /\ mainPc' = "write"
    /\ fetched' = "ok"
    /\ payload' = remote.bytes
    /\ UNCHANGED <<remote, dbFile, stagingFile, connOpen, connLocked, latest, hist>>
    /\ UNCHANGED <<loopVars, clientVars, dirtyVars>>

\* std::fs::write(db_path, payload)
OpenWriteDb ==
    /\ mainPc = "write"
    /\ mainPc' = "connect"
    /\ dbFile' = payload
    /\ payload' = NoContent
    /\ UNCHANGED <<remote, stagingFile, connOpen, connLocked, fetched, latest, hist>>
    /\ UNCHANGED <<loopVars, clientVars, dirtyVars>>

\* Mutex::new(rusqlite::Connection::open(db_path)?); Ok(Self { .. })
OpenConnect ==
    /\ mainPc = "connect"
    /\ mainPc' = "spawn"
    /\ connOpen' = TRUE
    /\ latest' = [p \in LeafPages |->
                    IF dbFile[p].kind = "row" THEN SomeLink(LinkOf(dbFile[p])) ELSE NoneLink]
    /\ hist' = <<dbFile>>
    /\ UNCHANGED <<remote, payload, dbFile, stagingFile, connLocked, fetched>>
    /\ UNCHANGED <<loopVars, clientVars, dirtyVars>>

\* any other ? of open or of main before serving: main returns the error
StartupFail ==
    /\ mainPc \in {"init_s3", "write", "connect", "bind"}
    /\ mainPc' = "exited"
    /\ UNCHANGED <<remote, payload, dbFile, stagingFile, connOpen, connLocked, fetched, latest, hist>>
    /\ UNCHANGED <<loopVars, clientVars, dirtyVars>>

\* tokio::task::spawn_blocking(backup loop)
MainSpawnBackup ==
    /\ mainPc = "spawn"
    /\ mainPc' = "bind"
    /\ bpc' = "await"
    /\ UNCHANGED <<remote, payload, dbFile, stagingFile, connOpen, connLocked, fetched, latest, hist>>
    /\ UNCHANGED <<count, copied, busy, content, lastOutcome>>
    /\ UNCHANGED <<clientVars, dirtyVars>>

\* TcpListener::bind(address); axum::serve(listener, app)
MainServe ==
    /\ mainPc = "bind"
    /\ mainPc' = "serving"
    /\ UNCHANGED <<remote, payload, dbFile, stagingFile, connOpen, connLocked, fetched, latest, hist>>
    /\ UNCHANGED <<loopVars, clientVars, dirtyVars>>

\* ------------------------------------------------------ the shared state
\* a plausible bug: the section is entered without waiting for the Mutex
TryLockNoWait == TRUE

\* self.conn.lock().unwrap() returns only when the Mutex is free
TryLock == ~connLocked

\* a plausible bug: a counting semaphore, every notify_one adds a permit
notify_one_counting ==
    IF bpc = "waiting"
    THEN bpc' = "woken" /\ permits' = permits
    ELSE bpc' = bpc /\ permits' = permits + 1

\* a plausible bug: notify_waiters, which stores no permit
notify_one_no_permit ==
    IF bpc = "waiting"
    THEN bpc' = "woken" /\ permits' = permits
    ELSE bpc' = bpc /\ permits' = permits

\* self.dirty.notify_one(): a waiting task is notified; otherwise one permit
\* is stored, and a Notify stores at most one
notify_one ==
    IF bpc = "waiting"
    THEN bpc' = "woken" /\ permits' = permits
    ELSE bpc' = bpc /\ permits' = 1

\* ---------------------------------------------------- request handlers
\* handler create_link: Link { .., created_at: Utc::now() }, then
\* state.create_link(namespace, link) is called.  The k-th request of the run
\* carries the long form RequestLongForm(k) and is stamped k.
CreateCall(c, ns, sf) ==
    /\ mainPc = "serving"
    /\ pc[c] = "idle"
    /\ clock <= MaxCalls
    /\ pc' = [pc EXCEPT ![c] = "called"]
    /\ req' = [req EXCEPT ![c] = [op |-> "create", namespace |-> ns, short_form |-> sf,
                                  long_form |-> RequestLongForm(clock),
                                  created_at |-> clock]]
    /\ clock' = clock + 1
    /\ UNCHANGED nnotify
    /\ UNCHANGED <<remote, dbFile, stagingFile, connLocked, latest, hist>>
    /\ UNCHANGED <<mainVars, loopVars, dirtyVars>>

\* Persistence::create_link: let conn = self.conn.lock().unwrap()
CreateLock(c) ==
    /\ pc[c] = "called"
    /\ TryLock
    /\ connLocked' = TRUE
    /\ pc' = [pc EXCEPT ![c] = "locked"]
    /\ UNCHANGED <<req, clock, nnotify>>
    /\ UNCHANGED <<remote, dbFile, stagingFile, latest, hist>>
    /\ UNCHANGED <<mainVars, loopVars, dirtyVars>>

\* a plausible bug: notify_one is called before the statement runs, so a
\* failed write has marked the store dirty
CreateFailAfterNotify(c) ==
    /\ pc[c] = "locked"
    /\ notify_one
    /\ marks' = marks + 1
    /\ nmarks' = nmarks + 1
    /\ nnotify' = [nnotify EXCEPT ![c] = nnotify[c] + 1]
    /\ pc' = [pc EXCEPT ![c] = "failed"]
    /\ UNCHANGED <<req, clock>>
    /\ UNCHANGED <<remote, dbFile, stagingFile, connLocked, latest, hist>>
    /\ UNCHANGED <<mainVars, count, copied, busy, content, lastOutcome>>

\* conn.prepare(..)? or stmt.execute(..)? fails: the function is left with
\* the error
CreateFail(c) ==
    /\ pc[c] = "locked"
    /\ pc' = [pc EXCEPT ![c] = "failed"]
    /\ UNCHANGED <<req, clock, nnotify>>
    /\ UNCHANGED <<remote, dbFile, stagingFile, connLocked, latest, hist>>
    /\ UNCHANGED <<mainVars, loopVars, dirtyVars>>

\* conn.prepare(..) and stmt.execute((namespace, short_form, long_form,
\* created_at)) succeed
CreateExecute(c) ==
    /\ pc[c] = "locked"
    /\ HasTable(dbFile)
    /\ dbFile' = Upsert(dbFile, req[c].namespace, req[c].short_form,
                        req[c].long_form, req[c].created_at)
    /\ latest' = [latest EXCEPT ![PageOf(req[c].namespace, req[c].short_form)] =
                     SomeLink(Link(req[c].short_form, req[c].long_form, req[c].created_at))]
    /\ hist' = Append(hist, dbFile')
    /\ pc' = [pc EXCEPT ![c] = "executed"]
    /\ UNCHANGED <<req, clock, nnotify>>
    /\ UNCHANGED <<remote, stagingFile, connLocked>>
    /\ UNCHANGED <<mainVars, loopVars, dirtyVars>>

\* self.dirty.notify_one()
CreateNotify(c) ==
    /\ pc[c] = "executed"
    /\ notify_one
    /\ marks' = marks + 1
    /\ nmarks' = nmarks + 1
    /\ nnotify' = [nnotify EXCEPT ![c] = nnotify[c] + 1]
    /\ pc' = [pc EXCEPT ![c] = "notified"]
    /\ UNCHANGED <<req, clock>>
    /\ UNCHANGED <<remote, dbFile, stagingFile, connLocked, latest, hist>>
    /\ UNCHANGED <<mainVars, count, copied, busy, content, lastOutcome>>

\* Err(..) or Ok(()) is returned: the guard is dropped and the handler responds
CreateReturn(c) ==
    /\ pc[c] \in {"failed", "notified"}
    /\ connLocked' = FALSE
    /\ pc' = [pc EXCEPT ![c] = "idle"]
    /\ req' = [req EXCEPT ![c] = NoReq]
    /\ nnotify' = [nnotify EXCEPT ![c] = 0]
    /\ UNCHANGED clock
    /\ UNCHANGED <<remote, dbFile, stagingFile, latest, hist>>
    /\ UNCHANGED <<mainVars, loopVars, dirtyVars>>

\* Persistence::list_links, get_link, reverse_lookup:
\* let conn = self.conn.lock().unwrap()
ReadLock(c) ==
    /\ mainPc = "serving"
    /\ pc[c] = "idle"
    /\ TryLock
    /\ connLocked' = TRUE
    /\ pc' = [pc EXCEPT ![c] = "reading"]
    /\ UNCHANGED <<req, clock, nnotify>>
    /\ UNCHANGED <<remote, dbFile, stagingFile, latest, hist>>
    /\ UNCHANGED <<mainVars, loopVars, dirtyVars>>

\* the read operation's statement has run on dbFile (list_links, get_link or
\* reverse_lookup of it, or an error): the guard is dropped and the handler
\* responds
ReadReturn(c) ==
    /\ pc[c] = "reading"
    /\ connLocked' = FALSE
    /\ pc' = [pc EXCEPT ![c] = "idle"]
    /\ UNCHANGED <<req, clock, nnotify>>
    /\ UNCHANGED <<remote, dbFile, stagingFile, latest, hist>>
    /\ UNCHANGED <<mainVars, loopVars, dirtyVars>>

\* ------------------------------------------------------ the backup loop
\* h.block_on(state.dirty.notified()) finds a stored permit and consumes it;
\* count += 1
LoopNotifiedPermit ==
    /\ bpc = "await"
    /\ permits > 0
    /\ permits' = permits - 1
    /\ count' = count + 1
    /\ bpc' = "stage"
    /\ marks' = 0
    /\ UNCHANGED nmarks
    /\ UNCHANGED <<copied, busy, content, lastOutcome>>
    /\ UNCHANGED <<remote, dbFile, stagingFile, connLocked, latest, hist>>
    /\ UNCHANGED <<mainVars, clientVars>>

\* h.block_on(state.dirty.notified()) finds no permit: the task waits
LoopNotifiedBlock ==
    /\ bpc = "await"
    /\ permits = 0
    /\ bpc' = "waiting"
    /\ UNCHANGED <<count, copied, busy, content, lastOutcome>>
    /\ UNCHANGED <<remote, dbFile, stagingFile, connLocked, latest, hist>>
    /\ UNCHANGED <<mainVars, clientVars, dirtyVars>>

\* the notified task resumes; count += 1
LoopWake ==
    /\ bpc = "woken"
    /\ count' = count + 1
    /\ bpc' = "stage"
    /\ marks' = 0
    /\ UNCHANGED nmarks
    /\ UNCHANGED <<permits, copied, busy, content, lastOutcome>>
    /\ UNCHANGED <<remote, dbFile, stagingFile, connLocked, latest, hist>>
    /\ UNCHANGED <<mainVars, clientVars>>

\* a plausible bug: the staged file is read back without the backup being
\* run, so the bytes are those the attempt before left there
StageLockSkipsCopy ==
    /\ bpc = "stage"
    /\ TryLock
    /\ connLocked' = TRUE
    /\ stagingFile' = IF stagingFile = NoFile THEN [p \in 1..NumPages |-> BlankPage]
                      ELSE stagingFile
    /\ copied' = 0
    /\ busy' = 0
    /\ bpc' = "read"
    /\ UNCHANGED <<count, content, lastOutcome>>
    /\ UNCHANGED <<remote, dbFile, latest, hist>>
    /\ UNCHANGED <<mainVars, clientVars, dirtyVars>>

\* stage_backup: conn.lock(); Connection::open(backup_staging_path);
\* Backup::new(&conn, &mut backup_conn)
StageLock ==
    /\ bpc = "stage"
    /\ TryLock
    /\ connLocked' = TRUE
    /\ stagingFile' = IF stagingFile = NoFile THEN [p \in 1..NumPages |-> BlankPage]
                      ELSE stagingFile
    /\ copied' = 0
    /\ busy' = 0
    /\ bpc' = "copy"
    /\ UNCHANGED <<count, content, lastOutcome>>
    /\ UNCHANGED <<remote, dbFile, latest, hist>>
    /\ UNCHANGED <<mainVars, clientVars, dirtyVars>>

\* a plausible bug: one step(5) in place of run_to_completion, so a database
\* of more pages is read back after its first pages only
StageStepOnce ==
    /\ bpc = "copy"
    /\ LET n == Min(PagesPerStep, NumPages - copied)
       IN  /\ stagingFile' = [p \in 1..NumPages |->
                                IF copied < p /\ p <= copied + n THEN dbFile[p]
                                ELSE stagingFile[p]]
           /\ copied' = copied + n
           /\ bpc' = "read"
    /\ UNCHANGED <<count, busy, content, lastOutcome>>
    /\ UNCHANGED <<remote, dbFile, connLocked, latest, hist>>
    /\ UNCHANGED <<mainVars, clientVars, dirtyVars>>

\* a plausible bug: the guard is dropped after every step, so that handlers
\* get the connection between two steps
StageStepYields ==
    /\ bpc = "copy"
    /\ LET n == Min(PagesPerStep, NumPages - copied)
       IN  /\ stagingFile' = [p \in 1..NumPages |->
                                IF copied < p /\ p <= copied + n THEN dbFile[p]
                                ELSE stagingFile[p]]
           /\ copied' = copied + n
           /\ bpc' = IF copied + n = NumPages THEN "read" ELSE "copy"
    /\ connLocked' = FALSE
    /\ UNCHANGED <<count, busy, content, lastOutcome>>
    /\ UNCHANGED <<remote, dbFile, latest, hist>>
    /\ UNCHANGED <<mainVars, clientVars, dirtyVars>>

\* run_to_completion: step(5) copies the next pages; More, or Done
StageStep ==
    /\ bpc = "copy"
    /\ LET n == Min(PagesPerStep, NumPages - copied)
       IN  /\ stagingFile' = [p \in 1..NumPages |->
                                IF copied < p /\ p <= copied + n THEN dbFile[p]
                                ELSE stagingFile[p]]
           /\ copied' = copied + n
           /\ bpc' = IF copied + n = NumPages THEN "read" ELSE "copy"
    /\ UNCHANGED <<count, busy, content, lastOutcome>>
    /\ UNCHANGED <<remote, dbFile, connLocked, latest, hist>>
    /\ UNCHANGED <<mainVars, clientVars, dirtyVars>>

\* a plausible bug: the 5 is taken for a retry budget, and the fifth Busy of
\* a staging ends it with an error
StageStepBusyBudget ==
    /\ bpc = "copy"
    /\ busy < MaxBusy
    /\ busy' = busy + 1
    /\ IF busy + 1 >= PagesPerStep
       THEN /\ bpc' = "await"
            /\ connLocked' = FALSE
            /\ copied' = 0
            /\ lastOutcome' = "stage_err"
       ELSE UNCHANGED <<bpc, connLocked, copied, lastOutcome>>
    /\ UNCHANGED <<count, content>>
    /\ UNCHANGED <<remote, dbFile, stagingFile, latest, hist>>
    /\ UNCHANGED <<mainVars, clientVars, dirtyVars>>

\* run_to_completion: step(5) answers Busy or Locked; sleep(0) and step again
StageStepBusy ==
    /\ bpc = "copy"
    /\ busy < MaxBusy
    /\ busy' = busy + 1
    /\ UNCHANGED <<bpc, count, copied, content, lastOutcome>>
    /\ UNCHANGED <<remote, dbFile, stagingFile, connLocked, latest, hist>>
    /\ UNCHANGED <<mainVars, clientVars, dirtyVars>>

\* a plausible bug: a failed staging ends the loop (break, or a panic)
StageFailEndsLoop ==
    /\ bpc \in {"copy", "read"}
    /\ connLocked' = FALSE
    /\ copied' = 0
    /\ busy' = 0
    /\ lastOutcome' = "stage_err"
    /\ bpc' = "ended"
    /\ UNCHANGED <<count, content>>
    /\ UNCHANGED <<remote, dbFile, stagingFile, latest, hist>>
    /\ UNCHANGED <<mainVars, clientVars, dirtyVars>>

\* a ? of stage_backup fails: the guard is dropped; the loop warns
\* "failed to stage backup" and continues
StageFail ==
    /\ bpc \in {"copy", "read"}
    /\ connLocked' = FALSE
    /\ copied' = 0
    /\ busy' = 0
    /\ lastOutcome' = "stage_err"
    /\ bpc' = "await"
    /\ UNCHANGED <<count, content>>
    /\ UNCHANGED <<remote, dbFile, stagingFile, latest, hist>>
    /\ UNCHANGED <<mainVars, clientVars, dirtyVars>>

\* a plausible bug: the guard is kept over the upload, staging and upload
\* being one function
StageReadKeepsGuard ==
    /\ bpc = "read"
    /\ content' = stagingFile
    /\ copied' = 0
    /\ busy' = 0
    /\ bpc' = "upload"
    /\ UNCHANGED <<count, lastOutcome>>
    /\ UNCHANGED <<remote, dbFile, stagingFile, connLocked, latest, hist>>
    /\ UNCHANGED <<mainVars, clientVars, dirtyVars>>

\* std::fs::read(backup_staging_path); Ok(content): the guard is dropped
StageRead ==
    /\ bpc = "read"
    /\ content' = stagingFile
    /\ connLocked' = FALSE
    /\ copied' = 0
    /\ busy' = 0
    /\ bpc' = "upload"
    /\ UNCHANGED <<count, lastOutcome>>
    /\ UNCHANGED <<remote, dbFile, stagingFile, latest, hist>>
    /\ UNCHANGED <<mainVars, clientVars, dirtyVars>>

\* a plausible bug: the dirty signal is cleared after the upload, not before
\* the snapshot, so a mark made since the snapshot is lost
UploadOkClearsDirty ==
    /\ bpc = "upload"
    /\ remote' = [found |-> TRUE, bytes |-> content]
    /\ content' = NoContent
    /\ lastOutcome' = "ok"
    /\ bpc' = "await"
    /\ permits' = 0
    /\ UNCHANGED <<marks, nmarks>>
    /\ UNCHANGED <<count, copied, busy>>
    /\ UNCHANGED <<dbFile, stagingFile, connLocked, latest, hist>>
    /\ UNCHANGED <<mainVars, clientVars>>

\* backup_to_s3: store.put(s3_path, content) succeeds
UploadOk ==
    /\ bpc = "upload"
    /\ remote' = [found |-> TRUE, bytes |-> content]
    /\ content' = NoContent
    /\ lastOutcome' = "ok"
    /\ bpc' = "await"
    /\ UNCHANGED <<count, copied, busy>>
    /\ UNCHANGED <<dbFile, stagingFile, connLocked, latest, hist>>
    /\ UNCHANGED <<mainVars, clientVars, dirtyVars>>

\* a plausible bug: the upload's error is propagated with ? and ends the loop
UploadFailEndsLoop ==
    /\ bpc = "upload"
    /\ content' = NoContent
    /\ lastOutcome' = "upload_err"
    /\ bpc' = "ended"
    /\ UNCHANGED <<count, copied, busy>>
    /\ UNCHANGED <<remote, dbFile, stagingFile, connLocked, latest, hist>>
    /\ UNCHANGED <<mainVars, clientVars, dirtyVars>>

\* a plausible bug: a failed upload is tried again at once, without a wake
UploadFailRetries ==
    /\ bpc = "upload"
    /\ content' = NoContent
    /\ lastOutcome' = "upload_err"
    /\ count' = count + 1
    /\ bpc' = "stage"
    /\ UNCHANGED <<copied, busy>>
    /\ UNCHANGED <<remote, dbFile, stagingFile, connLocked, latest, hist>>
    /\ UNCHANGED <<mainVars, clientVars, dirtyVars>>

\* backup_to_s3 fails: the loop warns "failed to upload backup" and continues
UploadFail ==
    /\ bpc = "upload"
    /\ content' = NoContent
    /\ lastOutcome' = "upload_err"
    /\ bpc' = "await"
    /\ UNCHANGED <<count, copied, busy>>
    /\ UNCHANGED <<remote, dbFile, stagingFile, connLocked, latest, hist>>
    /\ UNCHANGED <<mainVars, clientVars, dirtyVars>>

\* ------------------------------------------------------------- restart
\* the process ends (a crash, a kill, main returning an error) and is started
\* again: the files and the object at s3_path stay, what was in memory is
\* lost, and time has passed
Restart ==
    /\ mainPc # "start"
    /\ clock <= MaxCalls
    /\ clock' = clock + 1
    /\ mainPc' = "start"
    /\ payload' = NoContent
    /\ connOpen' = FALSE
    /\ connLocked' = FALSE
    /\ permits' = 0
    /\ bpc' = "unspawned"
    /\ count' = 0
    /\ copied' = 0
    /\ busy' = 0
    /\ content' = NoContent
    /\ pc' = [c \in Clients |-> "idle"]
    /\ req' = [c \in Clients |-> NoReq]
    /\ nnotify' = [c \in Clients |-> 0]
    /\ fetched' = "none"
    /\ marks' = 0
    /\ nmarks' = 0
    /\ lastOutcome' = "none"
    /\ hist' = <<dbFile>>
    /\ UNCHANGED <<remote, dbFile, stagingFile, latest>>

\* --------------------------------------------------------- specification
Main ==
    \/ OpenRemoveFiles
    \/ OpenInitS3
    \/ OpenFetch
    \/ OpenFetchFail
    \/ OpenWriteDb
    \/ OpenConnect
    \/ StartupFail
    \/ MainSpawnBackup
    \/ MainServe

BackupLoop ==
    \/ LoopNotifiedPermit
    \/ LoopNotifiedBlock
    \/ LoopWake
    \/ StageLock
    \/ StageStep
    \/ StageStepBusy
    \/ StageFail
    \/ StageRead
    \/ UploadOk
    \/ UploadFail

\* the steps of a handler that are the program's own, once the request is in
HandlerStep(c) ==
    \/ CreateLock(c)
    \/ CreateFail(c)
    \/ CreateExecute(c)
    \/ CreateNotify(c)
    \/ CreateReturn(c)
    \/ ReadReturn(c)

\* the requests that come in
Request(c) ==
    \/ \E ns \in Namespaces, sf \in ShortForms : CreateCall(c, ns, sf)
    \/ ReadLock(c)

Next ==
    \/ Main
    \/ BackupLoop
    \/ \E c \in Clients : HandlerStep(c)
    \/ \E c \in Clients : Request(c)

Spec == Init /\ [][Next]_vars

\* The threads keep running: a step of the backup loop or of a handler that
\* stays possible is taken, and a thread that waits for the Mutex gets it when
\* it is free again and again.  Requests need not come.
FairSpec ==
    /\ Spec
    /\ WF_vars(BackupLoop)
    /\ SF_vars(StageLock)
    /\ \A c \in Clients : WF_vars(HandlerStep(c)) /\ SF_vars(CreateLock(c))

\* The program over its restarts.
RestartNext ==
    \/ Next
    \/ Restart

RestartSpec == Init /\ [][RestartNext]_vars

\* The store under its requests: Persistence::open has fetched one of the
\* stored databases, main serves and the backup loop is blocked in notified().
\* The requests come one after the other, to one handler thread: the Mutex
\* lets one operation at a time at the connection, and the backup loop never
\* writes db_path.
StoreInit ==
    /\ mainPc = "serving"
    /\ dbFile \in StoredDbs
    /\ remote = [found |-> TRUE, bytes |-> dbFile]
    /\ payload = NoContent
    /\ stagingFile = NoFile
    /\ connOpen = TRUE
    /\ connLocked = FALSE
    /\ permits = 0
    /\ bpc = "waiting"
    /\ count = 0
    /\ copied = 0
    /\ busy = 0
    /\ content = NoContent
    /\ pc = [c \in Clients |-> "idle"]
    /\ req = [c \in Clients |-> NoReq]
    /\ clock = 1
    /\ fetched = "ok"
    /\ marks = 0
    /\ lastOutcome = "none"
    /\ nnotify = [c \in Clients |-> 0]
    /\ latest = [p \in LeafPages |->
                   IF dbFile[p].kind = "row" THEN SomeLink(LinkOf(dbFile[p])) ELSE NoneLink]
    /\ nmarks = 0
    /\ hist = <<dbFile>>

StoreNext ==
    \/ HandlerStep(1)
    \/ Request(1)

StoreSpec == StoreInit /\ [][StoreNext]_vars

\* ------------------------------------------------------------ properties
\* the pcs of the backup loop between notified() returning and the end of the
\* attempt
BackingUp == {"stage", "copy", "read", "upload"}

\* the wakes not yet acted on: the stored permit, and the notification handed
\* to the waiting task that has not resumed yet
PendingWakes == permits + (IF bpc = "woken" THEN 1 ELSE 0)

\* the threads inside their section on the connection
InSection ==
    {c \in Clients : pc[c] \in {"locked", "failed", "executed", "notified", "reading"}}
        \cup (IF bpc \in {"copy", "read"} THEN {"backup"} ELSE {})

SameKey(r, ns, sf) == r.namespace = ns /\ r.short_form = sf

SeqToSet(seq) == {seq[i] : i \in DOMAIN seq}

\* C1: no missed wake.  Whenever the backup loop rests blocked in notified()
\* with no stored permit, no notify_one has been called since the loop last
\* started a backup attempt: a mark made at any point after the last drain,
\* also during staging or upload, is followed by another attempt.
C1_NoMissedWake == (bpc = "waiting" /\ permits = 0) => marks = 0

\* a mark arrives while the loop uploads
C1_Witness == bpc = "upload" /\ marks >= 1 /\ permits = 1

C3_LastWriteWins ==
    connOpen =>
        \A ns \in Namespaces, sf \in ShortForms :
            get_link(dbFile, ns, sf) = latest[PageOf(ns, sf)]

\* the second create_link to a key has just replaced the first
C3_Witness ==
    \E c \in Clients :
        /\ pc[c] = "executed"
        /\ req[c].created_at = 2
        /\ marks = 1
        /\ Cardinality(RowPages(dbFile)) = 1

\* C4 as stated: concurrent create_link calls to one key resolve in call
\* order, the stored value being that of the call made last: a commit never
\* replaces the value of a call that was made after it.
C4_CallOrder ==
    [][\A c \in Clients :
         (pc[c] = "locked" /\ pc'[c] = "executed") =>
             \A p \in RowPages(dbFile) :
                 SameKey(dbFile[p], req[c].namespace, req[c].short_form)
                     => dbFile[p].created_at < req[c].created_at]_vars

\* C4, amended: concurrent create_link calls to one key resolve in the order
\* in which they take the Mutex, which need not be the order of the calls:
\* every commit leaves under its key exactly its own long_form and created_at,
\* whatever was stored, and leaves every other row as it was.
C4_LastCommitWins ==
    [][\A c \in Clients :
         (pc[c] = "locked" /\ pc'[c] = "executed") =>
             /\ \E p \in RowPages(dbFile') :
                    dbFile'[p] = Row(req[c].namespace, req[c].short_form,
                                     req[c].long_form, req[c].created_at)
             /\ \A p \in RowPages(dbFile') :
                    SameKey(dbFile'[p], req[c].namespace, req[c].short_form)
                        \/ dbFile'[p] = dbFile[p]
             /\ Cardinality(RowPages(dbFile')) <= Cardinality(RowPages(dbFile)) + 1]_vars

\* the call made first commits after the call made second, on the same key
C4_Witness ==
    \E c \in Clients :
        /\ pc[c] = "executed"
        /\ req[c].created_at = 1
        /\ clock = 3
        /\ marks + count >= 1
        /\ Cardinality(RowPages(dbFile)) = 1

\* C5: mutual exclusion.  At most one of list_links, get_link,
\* reverse_lookup, create_link and stage_backup is inside its section on the
\* connection, and the Mutex is held exactly while one is.
C5_MutualExclusion ==
    /\ Cardinality(InSection) <= 1
    /\ connLocked <=> InSection # {}

\* stage_backup is between two copy steps while a create_link waits
C5_Witness ==
    /\ bpc = "copy"
    /\ copied > 0
    /\ \E c \in Clients : pc[c] = "called"

\* C6: snapshot completeness.  The bytes stage_backup returns, read as a
\* database, give for every namespace the list (as a set) that the live store
\* gives at the instant of the return, which lies between the snapshot's start
\* and its return and after every create_link that completed before the start:
\* no row is missing and no two instants are mixed.
C6_SnapshotComplete ==
    [][(bpc = "read" /\ bpc' = "upload") =>
          /\ HasTable(content')
          /\ \A ns \in Namespaces :
                 SeqToSet(list_links(content', ns)) = SeqToSet(list_links(dbFile, ns))
          /\ dbFile' = dbFile]_vars

\* a snapshot of a store of two links, the last on the file's last page, is
\* about to be uploaded
C6_Witness ==
    /\ bpc = "upload"
    /\ Cardinality(RowPages(content)) = 2
    /\ NumPages \in RowPages(content)

\* C7: bootstrap precedes serving and a failed fetch is fatal.  The connection
\* is opened only on the file written from the fetched snapshot, the backup
\* loop is spawned only after that and requests are served only after both;
\* after a failed get, main has exited with no connection, no backup loop and
\* no request served.
C7_BootstrapFirst ==
    /\ connOpen => (fetched = "ok" /\ HasTable(dbFile))
    /\ mainPc \in {"connect", "spawn"} => dbFile = remote.bytes
    /\ bpc # "unspawned" => connOpen
    /\ (mainPc = "serving" \/ \E c \in Clients : pc[c] # "idle")
           => (connOpen /\ bpc # "unspawned")
    /\ fetched = "err" =>
           /\ mainPc = "exited"
           /\ ~connOpen
           /\ bpc = "unspawned"
           /\ dbFile = NoFile
           /\ \A c \in Clients : pc[c] = "idle"

\* the object is not at s3_path: main has exited
C7_Witness == fetched = "err" /\ ~remote.found /\ mainPc = "exited"

\* C8: no permanent failure state.  After a failed backup attempt, a mark
\* that is pending is always followed by the start of a fresh attempt, and an
\* attempt whose upload succeeds replaces the remote snapshot by its bytes.
C8_Retrigger ==
    /\ (lastOutcome \in {"stage_err", "upload_err"} /\ marks > 0) ~> (marks = 0)
    /\ [][(bpc = "upload" /\ lastOutcome' = "ok" /\ bpc' # "upload")
             => remote' = [found |-> TRUE, bytes |-> content]]_vars

\* after a failed upload a second attempt has been staged
C8_Witness == lastOutcome = "upload_err" /\ count = 2 /\ bpc = "upload"

\* C9: the backup loop has no terminal state.  It leaves Backing-Up only for
\* the wait on the dirty signal, whether the staging failed, the upload failed
\* or both succeeded, and main goes on.
C9_BackToIdle ==
    [][(bpc \in BackingUp /\ bpc' # bpc) =>
          /\ bpc' \in BackingUp \cup {"await"}
          /\ (lastOutcome' # lastOutcome \/ bpc = "upload") => bpc' = "await"
          /\ mainPc' = mainPc]_vars

\* after a failed staging the loop is blocked in the wait again
C9_Witness == lastOutcome = "stage_err" /\ bpc = "waiting" /\ count >= 1

\* C10: create_link signals the dirty signal exactly once on success and not
\* at all on failure.  A call that returns Ok has called notify_one once, after
\* its row was written; a call that fails has called it zero times and has left
\* the links, the permit and the backup loop as they were.
C10_NotifyOnceOnSuccess ==
    [][\A c \in Clients :
         /\ (pc[c] = "notified" /\ pc'[c] = "idle") =>
                /\ nnotify[c] = 1
                /\ get_link(dbFile, req[c].namespace, req[c].short_form).kind = "Some"
         /\ (pc[c] = "executed" /\ pc'[c] = "notified") =>
                /\ nnotify[c] = 0
                /\ \E p \in RowPages(dbFile) :
                       SameKey(dbFile[p], req[c].namespace, req[c].short_form)
         /\ (pc[c] = "locked" /\ pc'[c] = "failed") =>
                (dbFile' = dbFile /\ permits' = permits /\ bpc' = bpc)
         /\ (pc[c] = "failed" /\ pc'[c] = "idle") =>
                (nnotify[c] = 0 /\ dbFile' = dbFile /\ permits' = permits /\ bpc' = bpc)]_vars

\* a create_link has failed and nothing was ever marked
C10_Witness ==
    \E c \in Clients :
        pc[c] = "failed" /\ marks = 0 /\ permits = 0 /\ count = 0 /\ bpc = "waiting"

\* C11: upsert idempotence.  For every store and every (namespace, link), a
\* second create_link with the same namespace, short_form, long_form and
\* created_at leaves the stored links as the first call left them, and with
\* them every list_links, get_link and reverse_lookup result.
C11_UpsertIdempotent ==
    [][\A c \in Clients :
         (pc[c] = "locked" /\ pc'[c] = "executed") =>
             LET once == dbFile'
                 twice == Upsert(once, req[c].namespace, req[c].short_form,
                                 req[c].long_form, req[c].created_at)
             IN  /\ RowPages(twice) = RowPages(once)
                 /\ \A p \in RowPages(once) : twice[p] = once[p]
                 /\ \A ns \in Namespaces :
                        /\ list_links(twice, ns) = list_links(once, ns)
                        /\ \A sf \in ShortForms :
                               get_link(twice, ns, sf) = get_link(once, ns, sf)
                        /\ \A lf \in LongForms :
                               reverse_lookup(twice, ns, lf) = reverse_lookup(once, ns, lf)]_vars

\* a create_link has replaced the link of a key that was in the fetched store
C11_Witness ==
    \E c \in Clients :
        /\ pc[c] = "executed"
        /\ Len(hist) = 2
        /\ hist[1][PageOf(req[c].namespace, req[c].short_form)].kind = "row"
        /\ hist[1][PageOf(req[c].namespace, req[c].short_form)].long_form # req[c].long_form
        /\ Cardinality(RowPages(dbFile)) = 3

\* C12: reverse_lookup(namespace, long_form) answers, without an error, the
\* links of exactly the keys of that namespace whose last committed long_form
\* is the argument, one entry per key, never a link of another namespace, and
\* the empty sequence when no key matches.
C12_ReverseLookupExact ==
    connOpen =>
        \A ns \in Namespaces, lf \in LongForms :
            LET r == ReverseLookupResponse(dbFile, ns, lf)
                keys == {sf \in ShortForms :
                           /\ latest[PageOf(ns, sf)].kind = "Some"
                           /\ latest[PageOf(ns, sf)].link.long_form = lf}
            IN  /\ r.status = 200
                /\ Len(r.links) = Cardinality(keys)
                /\ SeqToSet(r.links) = {latest[PageOf(ns, sf)].link : sf \in keys}
                /\ keys = {} => r.links = <<>>

\* a reader is in its section on a store, written to since it was fetched,
\* where a long form has two links in one namespace and one in the other, and
\* the other long form has none in that namespace
C12_Witness ==
    /\ \E c \in Clients : pc[c] = "reading"
    /\ Len(hist) >= 2
    /\ Len(reverse_lookup(dbFile, "a", "u")) = 2
    /\ Len(reverse_lookup(dbFile, "b", "u")) = 1
    /\ reverse_lookup(dbFile, "b", "v") = <<>>

\* the handlers inside their section on the connection
HandlersInSection ==
    {c \in Clients : pc[c] \in {"locked", "failed", "executed", "notified", "reading"}}

\* C13 as stated: stage_backup gives up its exclusivity between two copy
\* steps, so that a create_link that waits can take the store there.
C13_ReleasedBetweenSteps ==
    (bpc = "copy" /\ copied > 0 /\ HandlersInSection = {}) => TryLock

\* C13, amended: the snapshot is copied in steps of at most 5 pages, but under
\* one hold of the Mutex: stage_backup takes it before the first step and gives
\* it up only when the staged file is read back or the staging has failed.
\* From the first step to that point no handler enters its section, a
\* create_link that waits keeps waiting, and the database does not change.
C13_OneLockHold ==
    [][(bpc \in {"copy", "read"}) =>
          /\ connLocked
          /\ HandlersInSection = {}
          /\ copied' - copied <= PagesPerStep
          /\ dbFile' = dbFile
          /\ \A c \in Clients : pc'[c] \in {"idle", "called"}
          /\ (bpc' \in {"copy", "read"}) => connLocked'
          /\ (bpc' \notin {"copy", "read"}) => (connLocked' = FALSE)]_vars

\* the copy is done, in two steps, and a create_link has waited through it
C13_Witness ==
    /\ bpc = "read"
    /\ copied = NumPages
    /\ NumPages > PagesPerStep
    /\ \E c \in Clients : pc[c] = "called"

\* C14 as stated: the 5 of run_to_completion is a budget of attempts, so one
\* staging gets at most 5 Busy answers before it ends with an error.
C14_RetryBudget == busy <= PagesPerStep

\* C14, amended: the 5 is the number of pages a step copies, not a budget.  A
\* step that finds the database busy is stepped again, with a pause of zero,
\* however many times that has happened; a Busy answer never ends the staging.
\* The staging ends with an error only when a call of stage_backup fails
\* otherwise, and then the loop logs it and goes back to the wait with the
\* Mutex free and the remote object untouched.
C14_BusyRetried ==
    [][(bpc = "copy") =>
          /\ (busy' > busy) =>
                 (bpc' = "copy" /\ copied' = copied /\ connLocked' /\ lastOutcome' = lastOutcome)
          /\ (copied' > copied) =>
                 (copied' - copied = Min(PagesPerStep, NumPages - copied) /\ busy' = busy)
          /\ (bpc' = "await") =>
                 (lastOutcome' = "stage_err" /\ connLocked' = FALSE /\ remote' = remote)]_vars

\* a staging has copied every page after more Busy answers than 5
C14_Witness == bpc = "read" /\ copied = NumPages /\ busy > PagesPerStep

\* C15: backup attempts are driven only by marks.  The attempts started and
\* the wakes still pending never outnumber the notify_one calls made, so no
\* attempt starts before the first successful create_link; an attempt starts
\* only from the wait, by consuming one pending wake; and the end of an
\* attempt, failed or not, starts none: there is no timer.
C15_AttemptsFromMarks ==
    /\ [](count + PendingWakes <= nmarks)
    /\ [](nmarks = 0 => (count = 0 /\ bpc \in {"unspawned", "await", "waiting"}))
    /\ [][(count' # count) =>
             /\ count' = count + 1
             /\ bpc \in {"await", "woken"}
             /\ bpc' = "stage"
             /\ PendingWakes >= 1
             /\ PendingWakes' = PendingWakes - 1]_vars
    /\ [][(bpc \in BackingUp /\ bpc' \notin BackingUp) =>
             (bpc' = "await" /\ count' = count /\ PendingWakes' = PendingWakes)]_vars

\* two marks have started two attempts, the second upload has failed, and the
\* loop is blocked with no wake pending
C15_Witness ==
    /\ lastOutcome = "upload_err"
    /\ bpc = "waiting"
    /\ permits = 0
    /\ nmarks = 2
    /\ count = 2

\* the entries of a list of links that carry the short form
EntriesOf(links, short_form) == {i \in DOMAIN links : links[i].short_form = short_form}

\* C16: upsert frame.  A successful create_link on (namespace, short_form)
\* leaves every record on its namespace and short_form, leaves every record of
\* another key as it was, adds no record but that of its key, and leaves
\* list_links(namespace) with exactly one entry for the short_form, which
\* carries the long_form and created_at of the call.
C16_UpsertFrame ==
    [][\A c \in Clients :
         (pc[c] = "locked" /\ pc'[c] = "executed") =>
             LET ns == req[c].namespace
                 sf == req[c].short_form
                 after == list_links(dbFile', ns)
             IN  /\ \A p \in RowPages(dbFile) :
                        /\ p \in RowPages(dbFile')
                        /\ dbFile'[p].namespace = dbFile[p].namespace
                        /\ dbFile'[p].short_form = dbFile[p].short_form
                        /\ SameKey(dbFile[p], ns, sf) \/ dbFile'[p] = dbFile[p]
                 /\ \A p \in RowPages(dbFile') \ RowPages(dbFile) : SameKey(dbFile'[p], ns, sf)
                 /\ \A n \in Namespaces \ {ns} : list_links(dbFile', n) = list_links(dbFile, n)
                 /\ \A s \in ShortForms \ {sf} : get_link(dbFile', ns, s) = get_link(dbFile, ns, s)
                 /\ Cardinality(EntriesOf(after, sf)) = 1
                 /\ \A i \in EntriesOf(after, sf) :
                        after[i] = Link(sf, req[c].long_form, req[c].created_at)
                 /\ Len(after) = Len(list_links(dbFile, ns))
                                   + (IF get_link(dbFile, ns, sf) = NoneLink THEN 1 ELSE 0)]_vars

\* a create_link has replaced the link of a/x in a store that held a link
\* under every key
C16_Witness ==
    \E c \in Clients :
        /\ pc[c] = "executed"
        /\ req[c].namespace = "a"
        /\ req[c].short_form = "x"
        /\ Len(hist) = 2
        /\ RowPages(hist[1]) = LeafPages
        /\ hist[1] # dbFile

\* C17: request handlers never wait on an upload.  While backup_to_s3 is in
\* flight the backup loop does not hold the Mutex: a handler that asks for the
\* store gets it unless another handler has it, every handler in its section
\* can take its next step and return, and a create_link that calls notify_one
\* then leaves the permit for the next cycle and the upload undisturbed.
C17_NoWaitOnUpload ==
    /\ [](bpc = "upload" =>
             /\ HandlersInSection = {} => TryLock
             /\ \A c \in Clients :
                    /\ (pc[c] = "called" /\ HandlersInSection = {}) => ENABLED CreateLock(c)
                    /\ (pc[c] = "idle" /\ HandlersInSection = {}) => ENABLED ReadLock(c)
                    /\ c \in HandlersInSection => ENABLED HandlerStep(c))
    /\ [][\A c \in Clients :
             (bpc = "upload" /\ pc[c] = "executed" /\ pc'[c] = "notified") =>
                 (permits' = 1 /\ bpc' = "upload" /\ content' = content /\ remote' = remote)]_vars

\* the run's second create_link has gone through its section and called
\* notify_one while the first upload is in flight
C17_Witness ==
    /\ bpc = "upload"
    /\ count = 1
    /\ permits = 1
    /\ \E c \in Clients : pc[c] = "notified" /\ req[c].created_at = 2

\* the handlers with a create_link call in flight
CreatesInFlight == {c \in Clients : pc[c] \notin {"idle", "reading"}}

\* C18: quiescent durability.  Whenever the backup loop is blocked in
\* notified() with no permit stored, no create_link is in flight and the last
\* backup attempt succeeded, the object at s3_path is the database as it is
\* now: it gives the last committed link of every key.
C18_QuiescentDurability ==
    (bpc = "waiting" /\ permits = 0 /\ CreatesInFlight = {} /\ lastOutcome = "ok") =>
        /\ remote.found
        /\ remote.bytes = dbFile
        /\ \A ns \in Namespaces, sf \in ShortForms :
               get_link(remote.bytes, ns, sf) = latest[PageOf(ns, sf)]

\* the loop rests after two writes, made one during the backup of the other,
\* were uploaded
C18_Witness ==
    /\ bpc = "waiting"
    /\ permits = 0
    /\ CreatesInFlight = {}
    /\ lastOutcome = "ok"
    /\ count = 2
    /\ Cardinality(RowPages(dbFile)) = 2

\* C19: the remote snapshot never regresses.  Once the connection is open the
\* object at s3_path is one of the contents the database has had since, only
\* a successful upload changes it, and each successful upload replaces it by a
\* content that is the same or a later one, so that it holds every write the
\* replaced one held.
C19_RemoteNeverRegresses ==
    /\ [](connOpen =>
             /\ \E i \in DOMAIN hist : remote.bytes = hist[i]
             /\ \A i, j \in DOMAIN hist : i < j => hist[i] # hist[j]
             /\ hist[Len(hist)] = dbFile)
    /\ [][(remote' # remote) => (bpc = "upload" /\ lastOutcome' = "ok")]_vars
    /\ [][(bpc = "upload" /\ bpc' = "await" /\ lastOutcome' = "ok") =>
             \E i, j \in DOMAIN hist :
                 i <= j /\ remote.bytes = hist[i] /\ remote'.bytes = hist[j]]_vars

\* the first write is at the remote and the upload of the second is in flight
C19_Witness ==
    /\ bpc = "upload"
    /\ count = 2
    /\ Len(hist) = 3
    /\ remote.bytes = hist[2]
    /\ content = hist[3]

\* C20: a restart recovers exactly the remote snapshot.  Persistence::open
\* fetches with no file at db_path and none at backup_staging_path, and when
\* it has succeeded the database is the object that was at s3_path, whatever
\* file the run before left: a link that run committed and did not upload is
\* not in it.
C20_RestartRecoversRemote ==
    /\ [][(mainPc = "fetch" /\ mainPc' = "write") =>
             (dbFile = NoFile /\ stagingFile = NoFile /\ payload' = remote.bytes)]_vars
    /\ [][(mainPc = "connect" /\ mainPc' = "spawn") =>
             /\ connOpen'
             /\ remote' = remote
             /\ dbFile' = remote.bytes
             /\ stagingFile' = NoFile
             /\ \A ns \in Namespaces, sf \in ShortForms :
                    /\ get_link(dbFile', ns, sf) = get_link(remote.bytes, ns, sf)
                    /\ latest'[PageOf(ns, sf)] = get_link(remote.bytes, ns, sf)
             /\ \A p \in RowPages(hist[1]) :
                    hist[1][p] # remote.bytes[p] => dbFile'[p] # hist[1][p]]_vars
    /\ [](mainPc = "spawn" => (dbFile = remote.bytes /\ hist = <<dbFile>>))

\* the process was started again on a database with a link the run before
\* committed and did not upload; open has written the fetched object, which
\* has no link under that key, to db_path
C20_Witness ==
    /\ mainPc = "connect"
    /\ dbFile = remote.bytes
    /\ Len(hist[1]) = NumPages
    /\ \E p \in RowPages(hist[1]) :
           hist[1][p].created_at >= 1 /\ dbFile[p].kind = "free"

====
